---- MODULE Spec2Model ----
(***************************************************************************)
(* Model of the TAS2562 amplifier HAL (src/amplifier/tas2562.c) and of the *)
(* boot-time variant resolver (src/libinit/libinit_variant.cpp).           *)
(*                                                                         *)
(* The amplifier is a state machine driven by the framework: module open,  *)
(* set_mode, set_feedback and close, one call at a time.  Each action is   *)
(* one whole call.  The collaborators the calls reach (mixer, routing      *)
(* subsystem, capture streams) are modelled by the part of their state the *)
(* calls change and by a trace of the calls made.  Their failures are      *)
(* inputs of the action (the record env).                                  *)
(***************************************************************************)
EXTENDS Integers, Sequences, FiniteSets, TLC

VARIABLES
    dev,          \* lifetime of the device handle: "unopened", "open", "closed"
    tas2562,      \* struct tas2562_amp: [profile, adev, pcm]
    adev,         \* struct audio_device: [usecase_list, snd_device_ref, audio_route_ref, mixer]
    pcms,         \* capture streams returned by pcm_open and not yet closed
    last,         \* the most recent call: its arguments, its result, what was injected
    calls,        \* routing, mixer and stream calls made by that call, in order
    enabled_from, \* session handle and usecase list as they were when the last
                  \* successful enable began
    variants,     \* the variant table handed to search_variant
    hwc_prop,     \* ro.boot.hwc
    hwname_prop,  \* ro.boot.hwname
    props,        \* the system property store
    applied,      \* indices of the table entries handed to set_variant_props
    vpc           \* "idle" when no boot is modelled, "boot" before
                  \* search_variant has run, "done" after

ampvars == <<dev, tas2562, adev, pcms, last, calls, enabled_from>>
varvars == <<variants, hwc_prop, hwname_prop, props, applied, vpc>>
vars == <<dev, tas2562, adev, pcms, last, calls, enabled_from,
          variants, hwc_prop, hwname_prop, props, applied, vpc>>

(***************************************************************************)
(* Bounds                                                                  *)
(***************************************************************************)
MaxPcms == 2
MaxVariants == 2
\* Audio routes left applied by disables that found no usecase record, up to
\* which the audio HAL may still take the record off the list.
MaxStaleRoutes == 1

(***************************************************************************)
(* Constants of the amplifier HAL                                          *)
(***************************************************************************)
PROFILE_NONE == -1
PROFILE_MUSIC == 0
PROFILE_RING == 1
PROFILE_VOICE == 2
PROFILE_MAX == PROFILE_VOICE

EINVAL == 22
ENOMEM == 12
ENODEV == 19
EIO == 5
EPERM == 1

TAS2562_ALGO_PROFILE == "TAS2562_ALGO_PROFILE"
TAS2562_SMARTPA_ENABLE == "TAS2562_SMARTPA_ENABLE"
TAS2562_SET_SPKID_LEFT == "TAS2562_SET_SPKID_LEFT"

tas2562_profile_names ==
    (PROFILE_MUSIC :> "MUSIC" @@ PROFILE_RING :> "RING" @@ PROFILE_VOICE :> "VOICE")

AMPLIFIER_HARDWARE_INTERFACE == "amplifier_hw_if"

NULL == 0

USECASE_AUDIO_SPKR_CALIB_TX == "USECASE_AUDIO_SPKR_CALIB_TX"
SND_DEVICE_IN_CAPTURE_VI_FEEDBACK == "SND_DEVICE_IN_CAPTURE_VI_FEEDBACK"

\* The usecase record tas2562_start_feedback fills in.
FeedbackUsecase ==
    [id |-> USECASE_AUDIO_SPKR_CALIB_TX, type |-> "PCM_CAPTURE",
     in_snd_device |-> SND_DEVICE_IN_CAPTURE_VI_FEEDBACK,
     out_snd_device |-> "SND_DEVICE_NONE"]

\* A usecase of the framework that may already be active on the audio device.
PlaybackUsecase ==
    [id |-> "USECASE_AUDIO_PLAYBACK_DEEP_BUFFER", type |-> "PCM_PLAYBACK",
     in_snd_device |-> "SND_DEVICE_NONE",
     out_snd_device |-> "SND_DEVICE_OUT_SPEAKER"]

(***************************************************************************)
(* Inputs                                                                  *)
(***************************************************************************)
\* Routing values handed to set_feedback: two of the speaker class (the first
\* and the last case label of the switch) and two outside it.
DeviceInputs ==
    {"SND_DEVICE_OUT_SPEAKER", "SND_DEVICE_OUT_VOICE_SPEAKER_2",
     "SND_DEVICE_OUT_HANDSET", "SND_DEVICE_OUT_HEADPHONES"}

ModeInputs ==
    {"AUDIO_MODE_INVALID", "AUDIO_MODE_NORMAL", "AUDIO_MODE_RINGTONE",
     "AUDIO_MODE_IN_CALL", "AUDIO_MODE_IN_COMMUNICATION", "AUDIO_MODE_CALL_SCREEN"}

NameInputs == {AMPLIFIER_HARDWARE_INTERFACE, "audio_hw_if"}

\* What one mixer helper call meets: the control is set, the control does not
\* exist, or the control refuses the value.  The writes of the setup meet the
\* first two; the write that switches the smart PA off meets all three.
SetupOutcomes == {"ok", "noctl"}
MixerOutcomes == {"ok", "noctl", "seterr"}

\* pcm_open returns NULL, a stream that is not ready, or a ready stream.
PcmOpenOutcomes == {"null", "notready", "ready"}

\* pcm_start returns 0 or a negative status of its own choosing.
PcmStartResults == {0, -EPERM, -EIO}

DefaultEnv ==
    [calloc_ok |-> TRUE, spkid |-> "ok", algo |-> "ok", smartpa_on |-> "ok",
     pcm_id_ok |-> TRUE, pcm_open |-> "ready", pcm_start |-> 0,
     smartpa_off |-> "ok"]

\* The environments an enable that reaches the setup can meet; the fields a
\* path never reads are kept at their default.
StartEnvs ==
    {[DefaultEnv EXCEPT !.calloc_ok = FALSE]} \cup
    {e \in [calloc_ok : {TRUE}, spkid : SetupOutcomes, algo : SetupOutcomes,
            smartpa_on : SetupOutcomes, pcm_id_ok : BOOLEAN,
            pcm_open : PcmOpenOutcomes, pcm_start : PcmStartResults,
            smartpa_off : MixerOutcomes] :
        /\ ~e.pcm_id_ok => e.pcm_open = "ready"
        /\ (~e.pcm_id_ok \/ e.pcm_open # "ready") => e.pcm_start = 0
        /\ (e.pcm_id_ok /\ e.pcm_open = "ready" /\ e.pcm_start = 0)
              => e.smartpa_off = "ok"}

\* The environments a disable that reaches the teardown can meet.
StopEnvs == {[DefaultEnv EXCEPT !.smartpa_off = o] : o \in MixerOutcomes}

(***************************************************************************)
(* Collaborators: list, routing subsystem, mixer, capture streams          *)
(***************************************************************************)
Call(fn, a, v) == [fn |-> fn, a |-> a, v |-> v]

list_add_head(list, item) == <<item>> \o list

\* Mutant of list_remove: unlinks the node at the tail, not the node given.
list_remove_tail(list, i) == SubSeq(list, 1, Len(list) - 1)

\* list_remove unlinks one node: the node at position i.
list_remove(list, i) ==
    [k \in 1..(Len(list) - 1) |-> IF k < i THEN list[k] ELSE list[k + 1]]

\* Position of the first record with this id, 0 (NULL) if there is none.
get_usecase_from_list(list, id) ==
    IF \E k \in 1..Len(list) : list[k].id = id
    THEN CHOOSE k \in 1..Len(list) :
            /\ list[k].id = id
            /\ \A j \in 1..(k - 1) : list[j].id # id
    ELSE NULL

enable_snd_device(ad, snd) == [ad EXCEPT !.snd_device_ref = @ + 1]
disable_snd_device(ad, snd) == [ad EXCEPT !.snd_device_ref = @ - 1]
enable_audio_route(ad, usecase) == [ad EXCEPT !.audio_route_ref = @ + 1]
\* Mutant of disable_audio_route: the route stays applied.
disable_audio_route_noop(ad, usecase) == ad

disable_audio_route(ad, usecase) == [ad EXCEPT !.audio_route_ref = @ - 1]

\* The handle pcm_open returns: one that is not in use.
NewPcm(ps) == CHOOSE h \in 1..(Cardinality(ps) + 1) : h \notin ps

pcm_close(ps, h) == ps \ {h}

tas2562_mixer_set_enum_by_string(mixer, name, value, outcome) ==
    IF outcome = "noctl" THEN [rc |-> -EINVAL, mixer |-> mixer]
    ELSE IF outcome = "seterr" THEN [rc |-> -EPERM, mixer |-> mixer]
    ELSE [rc |-> 0, mixer |-> [mixer EXCEPT ![name] = value]]

tas2562_mixer_set_value(mixer, name, value, outcome) ==
    IF outcome = "noctl" THEN [rc |-> -EINVAL, mixer |-> mixer]
    ELSE IF outcome = "seterr" THEN [rc |-> -EPERM, mixer |-> mixer]
    ELSE [rc |-> 0, mixer |-> [mixer EXCEPT ![name] = value]]

(***************************************************************************)
(* The amplifier HAL                                                       *)
(***************************************************************************)
tas2562_is_speaker(device) ==
    device \in {"SND_DEVICE_OUT_SPEAKER",
                "SND_DEVICE_OUT_SPEAKER_AND_ANC_HEADSET",
                "SND_DEVICE_OUT_SPEAKER_AND_BT_A2DP",
                "SND_DEVICE_OUT_SPEAKER_AND_BT_SCO",
                "SND_DEVICE_OUT_SPEAKER_AND_BT_SCO_WB",
                "SND_DEVICE_OUT_SPEAKER_AND_DISPLAY_PORT",
                "SND_DEVICE_OUT_SPEAKER_AND_HDMI",
                "SND_DEVICE_OUT_SPEAKER_AND_HEADPHONES",
                "SND_DEVICE_OUT_SPEAKER_AND_LINE",
                "SND_DEVICE_OUT_SPEAKER_REVERSE",
                "SND_DEVICE_OUT_VOICE_SPEAKER",
                "SND_DEVICE_OUT_VOICE_SPEAKER_AND_VOICE_ANC_HEADSET",
                "SND_DEVICE_OUT_VOICE_SPEAKER_AND_VOICE_HEADPHONES",
                "SND_DEVICE_OUT_VOICE_SPEAKER_2"}

\* Mutant of ProfileForMode: the case label AUDIO_MODE_IN_COMMUNICATION is missing.
ProfileForMode_NoInCommunication(profile, mode) ==
    CASE mode = "AUDIO_MODE_NORMAL" -> PROFILE_MUSIC
      [] mode = "AUDIO_MODE_RINGTONE" -> PROFILE_RING
      [] mode = "AUDIO_MODE_IN_CALL" -> PROFILE_VOICE
      [] OTHER -> profile

\* Mutant of ProfileForMode: an unmapped mode clears the profile.
ProfileForMode_DefaultNone(profile, mode) ==
    CASE mode = "AUDIO_MODE_NORMAL" -> PROFILE_MUSIC
      [] mode = "AUDIO_MODE_RINGTONE" -> PROFILE_RING
      [] mode \in {"AUDIO_MODE_IN_CALL", "AUDIO_MODE_IN_COMMUNICATION"} -> PROFILE_VOICE
      [] OTHER -> PROFILE_NONE

\* The switch of tas2562_set_mode: the profile stored after the call.
ProfileForMode(profile, mode) ==
    CASE mode = "AUDIO_MODE_NORMAL" -> PROFILE_MUSIC
      [] mode = "AUDIO_MODE_RINGTONE" -> PROFILE_RING
      [] mode \in {"AUDIO_MODE_IN_CALL", "AUDIO_MODE_IN_COMMUNICATION"} -> PROFILE_VOICE
      [] OTHER -> profile

\* What a call hands back: the state it leaves, its status, the calls it made,
\* the injected failure it met and whether a mixer helper reported an error.
Ret(amp, ad, ps, rc, cs, fault, merr) ==
    [amp |-> amp, adev |-> ad, pcms |-> ps, rc |-> rc, calls |-> cs,
     fault |-> fault, mixer_err |-> merr]

\* Mutant of err_no_pcm: the audio route is not reverted.
err_no_pcm_keeps_route(amp, ad, ps, rc, cs, fault, merr, env) ==
    LET m == tas2562_mixer_set_enum_by_string(ad.mixer, TAS2562_SMARTPA_ENABLE,
                                              "DISABLE", env.smartpa_off)
        ad1 == [ad EXCEPT !.mixer = m.mixer]
        ad3 == disable_snd_device(ad1, SND_DEVICE_IN_CAPTURE_VI_FEEDBACK)
        ad4 == [ad3 EXCEPT !.usecase_list = list_remove(@, 1)]
    IN Ret(amp, ad4, ps, rc,
           cs \o <<Call("mixer_set_enum", TAS2562_SMARTPA_ENABLE, "DISABLE"),
                   Call("disable_snd_device", SND_DEVICE_IN_CAPTURE_VI_FEEDBACK, ""),
                   Call("list_remove", USECASE_AUDIO_SPKR_CALIB_TX, "")>>,
           fault, merr \/ m.rc < 0)

\* Mutant of err_no_pcm: the usecase record stays in the list.
err_no_pcm_keeps_usecase(amp, ad, ps, rc, cs, fault, merr, env) ==
    LET m == tas2562_mixer_set_enum_by_string(ad.mixer, TAS2562_SMARTPA_ENABLE,
                                              "DISABLE", env.smartpa_off)
        ad1 == [ad EXCEPT !.mixer = m.mixer]
        ad2 == disable_audio_route(ad1, FeedbackUsecase)
        ad3 == disable_snd_device(ad2, SND_DEVICE_IN_CAPTURE_VI_FEEDBACK)
    IN Ret(amp, ad3, ps, rc,
           cs \o <<Call("mixer_set_enum", TAS2562_SMARTPA_ENABLE, "DISABLE"),
                   Call("disable_audio_route", USECASE_AUDIO_SPKR_CALIB_TX, ""),
                   Call("disable_snd_device", SND_DEVICE_IN_CAPTURE_VI_FEEDBACK, "")>>,
           fault, merr \/ m.rc < 0)

\* Mutant of err_no_pcm: smart-PA-enable is not written back to "DISABLE".
err_no_pcm_keeps_smartpa(amp, ad, ps, rc, cs, fault, merr, env) ==
    LET ad2 == disable_audio_route(ad, FeedbackUsecase)
        ad3 == disable_snd_device(ad2, SND_DEVICE_IN_CAPTURE_VI_FEEDBACK)
        ad4 == [ad3 EXCEPT !.usecase_list = list_remove(@, 1)]
    IN Ret(amp, ad4, ps, rc,
           cs \o <<Call("disable_audio_route", USECASE_AUDIO_SPKR_CALIB_TX, ""),
                   Call("disable_snd_device", SND_DEVICE_IN_CAPTURE_VI_FEEDBACK, ""),
                   Call("list_remove", USECASE_AUDIO_SPKR_CALIB_TX, "")>>,
           fault, merr)

\* Label err_no_pcm of tas2562_start_feedback; the usecase is the list's head.
err_no_pcm(amp, ad, ps, rc, cs, fault, merr, env) ==
    LET m == tas2562_mixer_set_enum_by_string(ad.mixer, TAS2562_SMARTPA_ENABLE,
                                              "DISABLE", env.smartpa_off)
        ad1 == [ad EXCEPT !.mixer = m.mixer]
        ad2 == disable_audio_route(ad1, FeedbackUsecase)
        ad3 == disable_snd_device(ad2, SND_DEVICE_IN_CAPTURE_VI_FEEDBACK)
        ad4 == [ad3 EXCEPT !.usecase_list = list_remove(@, 1)]
    IN Ret(amp, ad4, ps, rc,
           cs \o <<Call("mixer_set_enum", TAS2562_SMARTPA_ENABLE, "DISABLE"),
                   Call("disable_audio_route", USECASE_AUDIO_SPKR_CALIB_TX, ""),
                   Call("disable_snd_device", SND_DEVICE_IN_CAPTURE_VI_FEEDBACK, ""),
                   Call("list_remove", USECASE_AUDIO_SPKR_CALIB_TX, "")>>,
           fault, merr \/ m.rc < 0)

\* Mutant of err_pcm_start: the status of pcm_start is replaced by -EIO.
err_pcm_start_returns_eio(amp, ad, ps, h, rc, cs, fault, merr, env) ==
    err_no_pcm(amp, ad, IF h # NULL THEN pcm_close(ps, h) ELSE ps, -EIO,
               IF h # NULL THEN cs \o <<Call("pcm_close", "", "")>> ELSE cs,
               fault, merr, env)

\* Label err_pcm_start of tas2562_start_feedback, falling through to err_no_pcm.
err_pcm_start(amp, ad, ps, h, rc, cs, fault, merr, env) ==
    err_no_pcm(amp, ad, IF h # NULL THEN pcm_close(ps, h) ELSE ps, rc,
               IF h # NULL THEN cs \o <<Call("pcm_close", "", "")>> ELSE cs,
               fault, merr, env)

\* Mutant of start_feedback_setup: the stream is stored before it is started.
start_feedback_setup_stores_on_open(amp, ad, ps, env) ==
    IF ~env.calloc_ok THEN Ret(amp, ad, ps, -ENOMEM, <<>>, "calloc", FALSE)
    ELSE
    LET usecase == FeedbackUsecase
        ad1 == [ad EXCEPT !.usecase_list = list_add_head(@, usecase)]
        ad2 == enable_snd_device(ad1, SND_DEVICE_IN_CAPTURE_VI_FEEDBACK)
        ad3 == enable_audio_route(ad2, usecase)
        m1 == tas2562_mixer_set_value(ad3.mixer, TAS2562_SET_SPKID_LEFT, 0, env.spkid)
        profile == tas2562_profile_names[amp.profile]
        m2 == tas2562_mixer_set_enum_by_string(m1.mixer, TAS2562_ALGO_PROFILE,
                                               profile, env.algo)
        m3 == tas2562_mixer_set_enum_by_string(m2.mixer, TAS2562_SMARTPA_ENABLE,
                                               "ENABLE", env.smartpa_on)
        ad4 == [ad3 EXCEPT !.mixer = m3.mixer]
        merr == m1.rc < 0 \/ m2.rc < 0 \/ m3.rc < 0
        cs == <<Call("list_add_head", USECASE_AUDIO_SPKR_CALIB_TX, ""),
                Call("enable_snd_device", SND_DEVICE_IN_CAPTURE_VI_FEEDBACK, ""),
                Call("enable_audio_route", USECASE_AUDIO_SPKR_CALIB_TX, ""),
                Call("mixer_set_value", TAS2562_SET_SPKID_LEFT, "0"),
                Call("mixer_set_enum", TAS2562_ALGO_PROFILE, profile),
                Call("mixer_set_enum", TAS2562_SMARTPA_ENABLE, "ENABLE"),
                Call("platform_get_pcm_device_id", USECASE_AUDIO_SPKR_CALIB_TX, "")>>
        cs_open == cs \o <<Call("pcm_open", "", "")>>
        h == NewPcm(ps)
        ps1 == ps \cup {h}
    IN  IF ~env.pcm_id_ok
        THEN err_no_pcm(amp, ad4, ps, -ENODEV, cs, "pcm_id", merr, env)
        ELSE IF env.pcm_open = "null"
        THEN err_no_pcm(amp, ad4, ps, -EIO, cs_open, "pcm_open", merr, env)
        ELSE IF env.pcm_open = "notready"
        THEN err_no_pcm(amp, ad4, ps1, -EIO, cs_open, "pcm_not_ready", merr, env)
        ELSE IF env.pcm_start < 0
        THEN err_pcm_start([amp EXCEPT !.pcm = h], ad4, ps1, h, env.pcm_start,
                           cs_open \o <<Call("pcm_start", "", "")>>,
                           "pcm_start", merr, env)
        ELSE Ret([amp EXCEPT !.pcm = h], ad4, ps1, 0,
                 cs_open \o <<Call("pcm_start", "", "")>>, "none", merr)

\* tas2562_start_feedback from the allocation of the usecase on.
start_feedback_setup(amp, ad, ps, env) ==
    IF ~env.calloc_ok THEN Ret(amp, ad, ps, -ENOMEM, <<>>, "calloc", FALSE)
    ELSE
    LET usecase == FeedbackUsecase
        ad1 == [ad EXCEPT !.usecase_list = list_add_head(@, usecase)]
        ad2 == enable_snd_device(ad1, SND_DEVICE_IN_CAPTURE_VI_FEEDBACK)
        ad3 == enable_audio_route(ad2, usecase)
        m1 == tas2562_mixer_set_value(ad3.mixer, TAS2562_SET_SPKID_LEFT, 0, env.spkid)
        profile == tas2562_profile_names[amp.profile]
        m2 == tas2562_mixer_set_enum_by_string(m1.mixer, TAS2562_ALGO_PROFILE,
                                               profile, env.algo)
        m3 == tas2562_mixer_set_enum_by_string(m2.mixer, TAS2562_SMARTPA_ENABLE,
                                               "ENABLE", env.smartpa_on)
        ad4 == [ad3 EXCEPT !.mixer = m3.mixer]
        merr == m1.rc < 0 \/ m2.rc < 0 \/ m3.rc < 0
        cs == <<Call("list_add_head", USECASE_AUDIO_SPKR_CALIB_TX, ""),
                Call("enable_snd_device", SND_DEVICE_IN_CAPTURE_VI_FEEDBACK, ""),
                Call("enable_audio_route", USECASE_AUDIO_SPKR_CALIB_TX, ""),
                Call("mixer_set_value", TAS2562_SET_SPKID_LEFT, "0"),
                Call("mixer_set_enum", TAS2562_ALGO_PROFILE, profile),
                Call("mixer_set_enum", TAS2562_SMARTPA_ENABLE, "ENABLE"),
                Call("platform_get_pcm_device_id", USECASE_AUDIO_SPKR_CALIB_TX, "")>>
        cs_open == cs \o <<Call("pcm_open", "", "")>>
        h == NewPcm(ps)
        ps1 == ps \cup {h}
    IN  IF ~env.pcm_id_ok
        THEN err_no_pcm(amp, ad4, ps, -ENODEV, cs, "pcm_id", merr, env)
        ELSE IF env.pcm_open = "null"
        THEN err_no_pcm(amp, ad4, ps, -EIO, cs_open, "pcm_open", merr, env)
        ELSE IF env.pcm_open = "notready"
        THEN err_no_pcm(amp, ad4, ps1, -EIO, cs_open, "pcm_not_ready", merr, env)
        ELSE IF env.pcm_start < 0
        THEN err_pcm_start(amp, ad4, ps1, h, env.pcm_start,
                           cs_open \o <<Call("pcm_start", "", "")>>,
                           "pcm_start", merr, env)
        ELSE Ret([amp EXCEPT !.pcm = h], ad4, ps1, 0,
                 cs_open \o <<Call("pcm_start", "", "")>>, "none", merr)

\* Mutant of tas2562_start_feedback: the check for an open session is missing.
start_feedback_without_state_check(amp, ad, ps, device, env) ==
    IF ~tas2562_is_speaker(device) THEN Ret(amp, ad, ps, 0, <<>>, "none", FALSE)
    ELSE start_feedback_setup(amp, ad, ps, env)

tas2562_start_feedback(amp, ad, ps, device, env) ==
    IF ~tas2562_is_speaker(device) THEN Ret(amp, ad, ps, 0, <<>>, "none", FALSE)
    ELSE IF amp.pcm # NULL THEN Ret(amp, ad, ps, -EINVAL, <<>>, "none", FALSE)
    ELSE start_feedback_setup(amp, ad, ps, env)

\* Mutant of stop_feedback_teardown: a missing usecase record is an error.
stop_feedback_teardown_requires_usecase(amp, ad, ps, env) ==
    LET ps1 == pcm_close(ps, amp.pcm)
        amp1 == [amp EXCEPT !.pcm = NULL]
        m == tas2562_mixer_set_enum_by_string(ad.mixer, TAS2562_SMARTPA_ENABLE,
                                              "DISABLE", env.smartpa_off)
        ad1 == disable_snd_device([ad EXCEPT !.mixer = m.mixer],
                                  SND_DEVICE_IN_CAPTURE_VI_FEEDBACK)
        i == get_usecase_from_list(ad1.usecase_list, USECASE_AUDIO_SPKR_CALIB_TX)
        ad2 == IF i # NULL
               THEN [disable_audio_route(ad1, ad1.usecase_list[i])
                        EXCEPT !.usecase_list = list_remove(@, i)]
               ELSE ad1
        cs == <<Call("pcm_close", "", ""),
                Call("mixer_set_enum", TAS2562_SMARTPA_ENABLE, "DISABLE"),
                Call("disable_snd_device", SND_DEVICE_IN_CAPTURE_VI_FEEDBACK, ""),
                Call("get_usecase_from_list", USECASE_AUDIO_SPKR_CALIB_TX, "")>>
              \o (IF i # NULL
                  THEN <<Call("disable_audio_route", USECASE_AUDIO_SPKR_CALIB_TX, ""),
                         Call("list_remove", USECASE_AUDIO_SPKR_CALIB_TX, "")>>
                  ELSE <<>>)
    IN Ret(amp1, ad2, ps1, IF i # NULL THEN 0 ELSE -EINVAL, cs, "none", m.rc < 0)

\* Mutant of stop_feedback_teardown: the status of the mixer write is returned.
stop_feedback_teardown_returns_mixer_rc(amp, ad, ps, env) ==
    LET ps1 == pcm_close(ps, amp.pcm)
        amp1 == [amp EXCEPT !.pcm = NULL]
        m == tas2562_mixer_set_enum_by_string(ad.mixer, TAS2562_SMARTPA_ENABLE,
                                              "DISABLE", env.smartpa_off)
        ad1 == disable_snd_device([ad EXCEPT !.mixer = m.mixer],
                                  SND_DEVICE_IN_CAPTURE_VI_FEEDBACK)
        i == get_usecase_from_list(ad1.usecase_list, USECASE_AUDIO_SPKR_CALIB_TX)
        ad2 == IF i # NULL
               THEN [disable_audio_route(ad1, ad1.usecase_list[i])
                        EXCEPT !.usecase_list = list_remove(@, i)]
               ELSE ad1
        cs == <<Call("pcm_close", "", ""),
                Call("mixer_set_enum", TAS2562_SMARTPA_ENABLE, "DISABLE"),
                Call("disable_snd_device", SND_DEVICE_IN_CAPTURE_VI_FEEDBACK, ""),
                Call("get_usecase_from_list", USECASE_AUDIO_SPKR_CALIB_TX, "")>>
              \o (IF i # NULL
                  THEN <<Call("disable_audio_route", USECASE_AUDIO_SPKR_CALIB_TX, ""),
                         Call("list_remove", USECASE_AUDIO_SPKR_CALIB_TX, "")>>
                  ELSE <<>>)
    IN Ret(amp1, ad2, ps1, m.rc, cs, "none", m.rc < 0)

\* tas2562_stop_feedback from pcm_close on.
stop_feedback_teardown(amp, ad, ps, env) ==
    LET ps1 == pcm_close(ps, amp.pcm)
        amp1 == [amp EXCEPT !.pcm = NULL]
        m == tas2562_mixer_set_enum_by_string(ad.mixer, TAS2562_SMARTPA_ENABLE,
                                              "DISABLE", env.smartpa_off)
        ad1 == disable_snd_device([ad EXCEPT !.mixer = m.mixer],
                                  SND_DEVICE_IN_CAPTURE_VI_FEEDBACK)
        i == get_usecase_from_list(ad1.usecase_list, USECASE_AUDIO_SPKR_CALIB_TX)
        ad2 == IF i # NULL
               THEN [disable_audio_route(ad1, ad1.usecase_list[i])
                        EXCEPT !.usecase_list = list_remove(@, i)]
               ELSE ad1
        cs == <<Call("pcm_close", "", ""),
                Call("mixer_set_enum", TAS2562_SMARTPA_ENABLE, "DISABLE"),
                Call("disable_snd_device", SND_DEVICE_IN_CAPTURE_VI_FEEDBACK, ""),
                Call("get_usecase_from_list", USECASE_AUDIO_SPKR_CALIB_TX, "")>>
              \o (IF i # NULL
                  THEN <<Call("disable_audio_route", USECASE_AUDIO_SPKR_CALIB_TX, ""),
                         Call("list_remove", USECASE_AUDIO_SPKR_CALIB_TX, "")>>
                  ELSE <<>>)
    IN Ret(amp1, ad2, ps1, 0, cs, "none", m.rc < 0)

\* Mutant of tas2562_stop_feedback: the check for an open session is missing.
stop_feedback_without_state_check(amp, ad, ps, device, env) ==
    IF ~tas2562_is_speaker(device) THEN Ret(amp, ad, ps, 0, <<>>, "none", FALSE)
    ELSE stop_feedback_teardown(amp, ad, ps, env)

\* Mutant of tas2562_stop_feedback: the check for a speaker device is missing.
stop_feedback_without_speaker_check(amp, ad, ps, device, env) ==
    IF amp.pcm = NULL THEN Ret(amp, ad, ps, -EINVAL, <<>>, "none", FALSE)
    ELSE stop_feedback_teardown(amp, ad, ps, env)

tas2562_stop_feedback(amp, ad, ps, device, env) ==
    IF ~tas2562_is_speaker(device) THEN Ret(amp, ad, ps, 0, <<>>, "none", FALSE)
    ELSE IF amp.pcm = NULL THEN Ret(amp, ad, ps, -EINVAL, <<>>, "none", FALSE)
    ELSE stop_feedback_teardown(amp, ad, ps, env)

tas2562_set_feedback(device, amp, adev_arg, ad, ps, devices, enable, env) ==
    IF adev_arg = "NULL" \/ device = "NULL"
    THEN Ret(amp, ad, ps, -EINVAL, <<>>, "none", FALSE)
    ELSE LET amp1 == [amp EXCEPT !.adev = adev_arg]
         IN IF enable THEN tas2562_start_feedback(amp1, ad, ps, devices, env)
            ELSE tas2562_stop_feedback(amp1, ad, ps, devices, env)

(***************************************************************************)
(* State machine of the amplifier                                          *)
(***************************************************************************)
NoCall ==
    [op |-> "none", device |-> "NULL", adev |-> "NULL", devices |-> "",
     enable |-> FALSE, mode |-> "", name |-> "", rc |-> 0, fault |-> "none",
     mixer_err |-> FALSE, pcm_start |-> 0]

\* The handles a caller can pass: NULL always, the device while it is open.
Handles == IF dev = "open" THEN {"NULL", "DEV"} ELSE {"NULL"}

\* The environments the call can meet, by the path it takes.
EnvsFor(device, adev_arg, devices, enable) ==
    IF adev_arg = "NULL" \/ device = "NULL" \/ ~tas2562_is_speaker(devices)
    THEN {DefaultEnv}
    ELSE IF enable
    THEN IF tas2562.pcm # NULL THEN {DefaultEnv}
         ELSE {e \in StartEnvs :
                 (e.calloc_ok /\ e.pcm_id_ok /\ e.pcm_open # "null")
                     => Cardinality(pcms) < MaxPcms}
    ELSE IF tas2562.pcm = NULL THEN {DefaultEnv} ELSE StopEnvs

AmpInit ==
    /\ dev = "unopened"
    /\ tas2562 = [profile |-> PROFILE_NONE, adev |-> "NULL", pcm |-> NULL]
    /\ adev = [usecase_list |-> <<PlaybackUsecase>>,
               snd_device_ref |-> 0, audio_route_ref |-> 0,
               mixer |-> [TAS2562_SET_SPKID_LEFT |-> 1,
                          TAS2562_ALGO_PROFILE |-> "VOICE",
                          TAS2562_SMARTPA_ENABLE |-> "DISABLE"]]
    /\ pcms = {}
    /\ last = NoCall
    /\ calls = <<>>
    /\ enabled_from = [pcm |-> NULL, usecase_list |-> <<>>]

VariantIdle ==
    /\ variants = <<>>
    /\ hwc_prop = ""
    /\ hwname_prop = ""
    /\ props = <<>>
    /\ applied = <<>>
    /\ vpc = "idle"

Init == AmpInit /\ VariantIdle

\* Mutant of tas2562_module_open: the interface name is not compared.
module_open_without_name_check(name, calloc_ok) ==
    /\ dev = "unopened"
    /\ LET rc == IF ~calloc_ok THEN -ENOMEM ELSE 0
       IN /\ dev' = IF rc = 0 THEN "open" ELSE dev
          /\ tas2562' = IF rc = 0
                        THEN [profile |-> PROFILE_MUSIC, adev |-> "NULL", pcm |-> NULL]
                        ELSE tas2562
          /\ last' = [NoCall EXCEPT !.op = "open", !.name = name, !.rc = rc,
                         !.fault = IF rc = -ENOMEM THEN "calloc" ELSE "none"]
    /\ calls' = <<>>
    /\ UNCHANGED <<adev, pcms, enabled_from>>
    /\ UNCHANGED varvars

tas2562_module_open(name, calloc_ok) ==
    /\ dev = "unopened"
    /\ LET rc == IF name # AMPLIFIER_HARDWARE_INTERFACE THEN -ENODEV
                 ELSE IF ~calloc_ok THEN -ENOMEM ELSE 0
       IN /\ dev' = IF rc = 0 THEN "open" ELSE dev
          /\ tas2562' = IF rc = 0
                        THEN [profile |-> PROFILE_MUSIC, adev |-> "NULL", pcm |-> NULL]
                        ELSE tas2562
          /\ last' = [NoCall EXCEPT !.op = "open", !.name = name, !.rc = rc,
                         !.fault = IF rc = -ENOMEM THEN "calloc" ELSE "none"]
    /\ calls' = <<>>
    /\ UNCHANGED <<adev, pcms, enabled_from>>
    /\ UNCHANGED varvars

tas2562_dev_close(device) ==
    /\ device \in Handles
    /\ dev' = IF device # "NULL" THEN "closed" ELSE dev
    /\ last' = [NoCall EXCEPT !.op = "close", !.device = device, !.rc = 0]
    /\ calls' = <<>>
    /\ UNCHANGED <<tas2562, adev, pcms, enabled_from>>
    /\ UNCHANGED varvars

\* Mutant of tas2562_set_mode: the profile is also written to the mixer.
set_mode_writes_mixer(device, mode) ==
    /\ device \in Handles
    /\ IF device = "NULL"
       THEN /\ tas2562' = tas2562
            /\ adev' = adev
            /\ calls' = <<>>
            /\ last' = [NoCall EXCEPT !.op = "set_mode", !.device = device,
                           !.mode = mode, !.rc = -EINVAL]
       ELSE /\ tas2562' = [tas2562 EXCEPT !.profile = ProfileForMode(@, mode)]
            /\ adev' = [adev EXCEPT !.mixer[TAS2562_ALGO_PROFILE] =
                                        tas2562_profile_names[tas2562'.profile]]
            /\ calls' = <<Call("mixer_set_enum", TAS2562_ALGO_PROFILE,
                               tas2562_profile_names[tas2562'.profile])>>
            /\ last' = [NoCall EXCEPT !.op = "set_mode", !.device = device,
                           !.mode = mode, !.rc = 0]
    /\ UNCHANGED <<dev, pcms, enabled_from>>
    /\ UNCHANGED varvars

tas2562_set_mode(device, mode) ==
    /\ device \in Handles
    /\ IF device = "NULL"
       THEN /\ tas2562' = tas2562
            /\ last' = [NoCall EXCEPT !.op = "set_mode", !.device = device,
                           !.mode = mode, !.rc = -EINVAL]
       ELSE /\ tas2562' = [tas2562 EXCEPT !.profile = ProfileForMode(@, mode)]
            /\ last' = [NoCall EXCEPT !.op = "set_mode", !.device = device,
                           !.mode = mode, !.rc = 0]
    /\ calls' = <<>>
    /\ UNCHANGED <<dev, adev, pcms, enabled_from>>
    /\ UNCHANGED varvars

set_feedback(device, adev_arg, devices, enable) ==
    /\ device \in Handles
    /\ \E env \in EnvsFor(device, adev_arg, devices, enable) :
       \E r \in {tas2562_set_feedback(device, tas2562, adev_arg, adev, pcms,
                                      devices, enable, env)} :
            /\ tas2562' = r.amp
            /\ adev' = r.adev
            /\ pcms' = r.pcms
            /\ calls' = r.calls
            /\ last' = [NoCall EXCEPT !.op = "set_feedback", !.device = device,
                           !.adev = adev_arg, !.devices = devices,
                           !.enable = enable, !.rc = r.rc, !.fault = r.fault,
                           !.mixer_err = r.mixer_err,
                           !.pcm_start = IF r.fault = "pcm_start"
                                         THEN env.pcm_start ELSE 0]
            /\ enabled_from' =
                  IF r.amp.pcm # NULL /\ tas2562.pcm = NULL
                  THEN [pcm |-> tas2562.pcm, usecase_list |-> adev.usecase_list]
                  ELSE enabled_from
    /\ UNCHANGED dev
    /\ UNCHANGED varvars

ModuleOpen == \E name \in NameInputs, ok \in BOOLEAN : tas2562_module_open(name, ok)
DevClose == \E device \in {"NULL", "DEV"} : tas2562_dev_close(device)
SetMode == \E device \in {"NULL", "DEV"}, mode \in ModeInputs :
              tas2562_set_mode(device, mode)
SetFeedback == \E device \in {"NULL", "DEV"}, adev_arg \in {"NULL", "ADEV"},
                  devices \in DeviceInputs, enable \in BOOLEAN :
                  set_feedback(device, adev_arg, devices, enable)

Next == ModuleOpen \/ DevClose \/ SetMode \/ SetFeedback

Spec == Init /\ [][Next]_vars

(***************************************************************************)
(* The amplifier with a usecase list it does not own                       *)
(***************************************************************************)
\* adev->usecase_list belongs to the audio HAL: between two calls of the
\* amplifier the HAL takes the feedback usecase off the list, which is the
\* case the null check after get_usecase_from_list is written for.
hal_list_remove ==
    /\ get_usecase_from_list(adev.usecase_list, USECASE_AUDIO_SPKR_CALIB_TX) # NULL
    /\ adev.audio_route_ref <= MaxStaleRoutes
    /\ adev' = [adev EXCEPT !.usecase_list =
                    list_remove(@, get_usecase_from_list(@, USECASE_AUDIO_SPKR_CALIB_TX))]
    /\ last' = [NoCall EXCEPT !.op = "hal_list_remove"]
    /\ calls' = <<>>
    /\ UNCHANGED <<dev, tas2562, pcms, enabled_from>>
    /\ UNCHANGED varvars

SharedListNext == ModuleOpen \/ DevClose \/ SetMode \/ SetFeedback \/ hal_list_remove

SharedListSpec == Init /\ [][SharedListNext]_vars

(***************************************************************************)
(* The amplifier on a mixer whose writes succeed                           *)
(***************************************************************************)
\* set_feedback where every mixer control is found and takes the value.
SetFeedbackMixerOk ==
    \E device \in {"NULL", "DEV"}, adev_arg \in {"NULL", "ADEV"},
       devices \in DeviceInputs, enable \in BOOLEAN :
          set_feedback(device, adev_arg, devices, enable) /\ ~last'.mixer_err

MixerOkNext == ModuleOpen \/ DevClose \/ SetMode \/ SetFeedbackMixerOk

MixerOkSpec == Init /\ [][MixerOkNext]_vars

(***************************************************************************)
(* The variant resolver                                                    *)
(***************************************************************************)
HwcValues == {"", "Global", "India"}
HwNames == {"curtana", "joyeuse"}

\* Brand, model and build fingerprint of the table entries.
Brandings ==
    {[brand |-> "Redmi", model |-> "Redmi Note 9S",
      build_fingerprint |-> "Redmi/curtana_global/curtana:12/RKQ1/V14:user/release-keys"],
     [brand |-> "POCO", model |-> "POCO M2 Pro",
      build_fingerprint |-> "POCO/gram_in/gram:12/RKQ1/V14:user/release-keys"]}

\* struct variant_info: one row of the table.
variant_info_t ==
    {[hwc_value |-> c, hwname_value |-> n, brand |-> b.brand, device |-> d,
      model |-> b.model, build_fingerprint |-> b.build_fingerprint] :
        c \in HwcValues, n \in HwNames, d \in HwNames, b \in Brandings}

\* The tables search_variant is handed: at most MaxVariants rows.
VariantTables == UNION {[1..n -> variant_info_t] : n \in 0..MaxVariants}

PropKeys ==
    {"brand", "device", "model", "fingerprint",
     "ro.bootimage.build.fingerprint", "ro.build.description"}

StockProps == [k \in PropKeys |-> "stock"]

\* fingerprint_to_description: the build description of a fingerprint.
fingerprint_to_description(fp) ==
    CASE fp = "Redmi/curtana_global/curtana:12/RKQ1/V14:user/release-keys"
            -> "curtana_global-user 12 RKQ1 V14 release-keys"
      [] fp = "POCO/gram_in/gram:12/RKQ1/V14:user/release-keys"
            -> "gram_in-user 12 RKQ1 V14 release-keys"
      [] OTHER -> ""

set_ro_build_prop(ps, prop, value) == [ps EXCEPT ![prop] = value]
property_override(ps, prop, value) == [ps EXCEPT ![prop] = value]

set_variant_props(ps, variant) ==
    LET p1 == set_ro_build_prop(ps, "brand", variant.brand)
        p2 == set_ro_build_prop(p1, "device", variant.device)
        p3 == set_ro_build_prop(p2, "model", variant.model)
        p4 == set_ro_build_prop(p3, "fingerprint", variant.build_fingerprint)
        p5 == property_override(p4, "ro.bootimage.build.fingerprint",
                                variant.build_fingerprint)
    IN property_override(p5, "ro.build.description",
                         fingerprint_to_description(variant.build_fingerprint))

\* The condition of the if in the loop of search_variant.
variant_matches(variant, hwc_value, hwname_value) ==
    /\ (variant.hwc_value = "" \/ variant.hwc_value = hwc_value)
    /\ variant.device = hwname_value

\* The loop of search_variant from row i on; st is [props, applied].
RECURSIVE search_variant_from(_, _, _, _, _)
search_variant_from(vs, i, hwc_value, hwname_value, st) ==
    IF i > Len(vs) THEN st
    ELSE IF variant_matches(vs[i], hwc_value, hwname_value)
    THEN [props |-> set_variant_props(st.props, vs[i]),
          applied |-> Append(st.applied, i)]
    ELSE search_variant_from(vs, i + 1, hwc_value, hwname_value, st)

\* Mutant of search_variant: the loop has no break, every matching row is applied.
RECURSIVE search_variant_no_break_from(_, _, _, _, _)
search_variant_no_break_from(vs, i, hwc_value, hwname_value, st) ==
    IF i > Len(vs) THEN st
    ELSE IF variant_matches(vs[i], hwc_value, hwname_value)
    THEN search_variant_no_break_from(vs, i + 1, hwc_value, hwname_value,
            [props |-> set_variant_props(st.props, vs[i]),
             applied |-> Append(st.applied, i)])
    ELSE search_variant_no_break_from(vs, i + 1, hwc_value, hwname_value, st)

search_variant_no_break(vs, hwc_value, hwname_value, st) ==
    search_variant_no_break_from(vs, 1, hwc_value, hwname_value, st)

search_variant(vs, hwc_value, hwname_value, st) ==
    search_variant_from(vs, 1, hwc_value, hwname_value, st)

VariantInit ==
    /\ AmpInit
    /\ variants \in VariantTables
    /\ hwc_prop \in HwcValues
    /\ hwname_prop \in HwNames \cup {""}
    /\ props = StockProps
    /\ applied = <<>>
    /\ vpc = "boot"

SearchVariant ==
    /\ vpc = "boot"
    /\ \E r \in {search_variant(variants, hwc_prop, hwname_prop,
                                [props |-> props, applied |-> applied])} :
         /\ props' = r.props
         /\ applied' = r.applied
    /\ vpc' = "done"
    /\ UNCHANGED <<variants, hwc_prop, hwname_prop>>
    /\ UNCHANGED ampvars

VariantNext == SearchVariant

VariantSpec == VariantInit /\ [][VariantNext]_vars

(***************************************************************************)
(* Properties of set_feedback                                              *)
(***************************************************************************)
\* The step is a set_feedback call with a device handle and an adev context.
FeedbackCall == last'.op = "set_feedback" /\ last'.device = "DEV" /\ last'.adev = "ADEV"

\* The step is such a call for a routing value of the speaker class.
SpeakerEnableCall == FeedbackCall /\ last'.enable /\ tas2562_is_speaker(last'.devices)
SpeakerDisableCall == FeedbackCall /\ ~last'.enable /\ tas2562_is_speaker(last'.devices)

\* The state records such a call as the most recent one.
WasSpeakerCall(enable) ==
    /\ last.op = "set_feedback" /\ last.device = "DEV" /\ last.adev = "ADEV"
    /\ last.enable = enable
    /\ tas2562_is_speaker(last.devices)

IsFeedbackRecord(u) == u.id = USECASE_AUDIO_SPKR_CALIB_TX
FeedbackRecords(list) == Len(SelectSeq(list, IsFeedbackRecord))

IsSmartPaWrite(c) == c.fn = "mixer_set_enum" /\ c.a = TAS2562_SMARTPA_ENABLE
IsMixerCall(c) == c.fn \in {"mixer_set_enum", "mixer_set_value"}
\* The value of the last write to smart-PA-enable in a call trace, "" if none.
LastSmartPaWrite(cs) ==
    LET w == SelectSeq(cs, IsSmartPaWrite)
    IN IF w = <<>> THEN "" ELSE w[Len(w)].v

HasCall(cs, fn) == \E k \in 1..Len(cs) : cs[k].fn = fn

\* The routing state: device enablement, applied route, usecase list.
Routing(ad) == <<ad.snd_device_ref, ad.audio_route_ref, ad.usecase_list>>

\* C1: a speaker-class enable while a session is open returns -EINVAL
\* (InvalidState), keeps the stored session handle, adds no usecase record and
\* makes no routing, mixer or stream call.
C1_EnableWhileOpenRejected ==
    [][(SpeakerEnableCall /\ tas2562.pcm # NULL) =>
          /\ last'.rc = -EINVAL
          /\ tas2562'.pcm = tas2562.pcm
          /\ adev' = adev
          /\ pcms' = pcms
          /\ calls' = <<>>]_vars

C1_Witness ==
    /\ WasSpeakerCall(TRUE)
    /\ tas2562.pcm # NULL
    /\ last.rc = -EINVAL
    /\ calls = <<>>

\* C2: a speaker-class disable with no session open returns -EINVAL
\* (InvalidState) and has no side effect: no call is made, the usecase list,
\* routing and mixer state are unchanged and the session stays null.  A disable
\* that follows a successful disable is such a call and leaves the whole state
\* as the first disable left it.
C2_DisableWhileClosedRejected ==
    [][/\ (SpeakerDisableCall /\ tas2562.pcm = NULL) =>
            /\ last'.rc = -EINVAL
            /\ tas2562'.pcm = NULL
            /\ adev' = adev
            /\ pcms' = pcms
            /\ calls' = <<>>
       /\ (SpeakerDisableCall /\ WasSpeakerCall(FALSE) /\ last.rc = 0) =>
            /\ last'.rc = -EINVAL
            /\ tas2562' = tas2562
            /\ adev' = adev
            /\ pcms' = pcms
            /\ calls' = <<>>]_vars

C2_Witness ==
    /\ WasSpeakerCall(FALSE)
    /\ tas2562.pcm = NULL
    /\ last.rc = -EINVAL
    /\ calls = <<>>
    /\ enabled_from.usecase_list = adev.usecase_list
    /\ adev.mixer[TAS2562_SET_SPKID_LEFT] = 0

\* C3: for a routing value outside the speaker class, set_feedback with a
\* device handle and an adev context returns 0 for enable and for disable, with
\* a session open or not: the session handle, the usecase list, the routing and
\* mixer state and the streams are unchanged and no call is made.
C3_NonSpeakerIsNoOp ==
    [][(FeedbackCall /\ ~tas2562_is_speaker(last'.devices)) =>
          /\ last'.rc = 0
          /\ tas2562'.pcm = tas2562.pcm
          /\ adev' = adev
          /\ pcms' = pcms
          /\ calls' = <<>>]_vars

C3_Witness ==
    /\ last.op = "set_feedback" /\ last.device = "DEV" /\ last.adev = "ADEV"
    /\ last.devices = "SND_DEVICE_OUT_HANDSET"
    /\ ~last.enable
    /\ last.rc = 0
    /\ tas2562.pcm # NULL

\* C4: a successful speaker-class enable from no session stores a non-null
\* session and leaves exactly one feedback-capture record in the usecase list,
\* inserted at its head; the speaker-class disable of that session clears the
\* session and removes the record, so that session handle and usecase list are
\* what they were when the enable began.
C4_EnableDisableRoundTrip ==
    [][/\ (SpeakerEnableCall /\ tas2562.pcm = NULL /\ last'.rc = 0) =>
            /\ tas2562'.pcm # NULL
            /\ FeedbackRecords(adev'.usecase_list) = 1
            /\ adev'.usecase_list = <<FeedbackUsecase>> \o adev.usecase_list
            /\ enabled_from'.usecase_list = adev.usecase_list
       /\ (SpeakerDisableCall /\ tas2562.pcm # NULL) =>
            /\ last'.rc = 0
            /\ tas2562'.pcm = NULL
            /\ FeedbackRecords(adev'.usecase_list) = 0
            /\ tas2562'.pcm = enabled_from.pcm
            /\ adev'.usecase_list = enabled_from.usecase_list]_vars

C4_Witness ==
    /\ WasSpeakerCall(FALSE)
    /\ last.rc = 0
    /\ HasCall(calls, "list_remove")
    /\ tas2562.pcm = NULL
    /\ adev.usecase_list = enabled_from.usecase_list
    /\ adev.usecase_list = <<PlaybackUsecase>>

\* C5: when the capture stream fails to open or is not ready during an enable,
\* the call ends with: "DISABLE" as the last value written to smart-PA-enable
\* (and as its value, if no mixer write of the call failed), the feedback
\* routing device disabled, the audio route reverted, no feedback record in the
\* usecase list and no session stored.
C5_OpenFailureRollsBack ==
    [][(SpeakerEnableCall /\ last'.fault \in {"pcm_open", "pcm_not_ready"}) =>
          /\ LastSmartPaWrite(calls') = "DISABLE"
          /\ ~last'.mixer_err => adev'.mixer[TAS2562_SMARTPA_ENABLE] = "DISABLE"
          /\ HasCall(calls', "disable_snd_device")
          /\ adev'.snd_device_ref = adev.snd_device_ref
          /\ HasCall(calls', "disable_audio_route")
          /\ adev'.audio_route_ref = adev.audio_route_ref
          /\ FeedbackRecords(adev'.usecase_list) = 0
          /\ adev'.usecase_list = adev.usecase_list
          /\ tas2562'.pcm = NULL]_vars

C5_Witness ==
    /\ WasSpeakerCall(TRUE)
    /\ last.fault = "pcm_open"
    /\ last.rc = -EIO
    /\ ~last.mixer_err
    /\ HasCall(calls, "pcm_open")
    /\ LastSmartPaWrite(calls) = "DISABLE"
    /\ tas2562.pcm = NULL

\* C6 as stated: after an enable that returns an error, the routing state and
\* the three mixer controls the enable writes are what they were before it.
C6_FailedEnableRestoresAll ==
    [][(SpeakerEnableCall /\ tas2562.pcm = NULL /\ last'.rc # 0) =>
          /\ Routing(adev') = Routing(adev)
          /\ adev'.mixer = adev.mixer]_vars

\* C6, amended: after an enable that returns an error the routing state is what
\* it was before the call.  Of the mixer controls, an allocation failure leaves
\* all three untouched; any later failure leaves "DISABLE" as the last value
\* written to smart-PA-enable and, if no mixer write of the call failed, leaves
\* smart-PA-enable at "DISABLE" and speaker-id and algorithm profile at the
\* values the enable wrote (0 and the name of the stored profile): these two
\* are not restored.
C6_FailedEnableRestoresRouting ==
    [][(SpeakerEnableCall /\ tas2562.pcm = NULL /\ last'.rc # 0) =>
          /\ Routing(adev') = Routing(adev)
          /\ tas2562'.pcm = NULL
          /\ last'.fault = "calloc" => (adev'.mixer = adev.mixer /\ calls' = <<>>)
          /\ last'.fault # "calloc" =>
                /\ LastSmartPaWrite(calls') = "DISABLE"
                /\ ~last'.mixer_err =>
                      adev'.mixer =
                         [TAS2562_SET_SPKID_LEFT |-> 0,
                          TAS2562_ALGO_PROFILE |-> tas2562_profile_names[tas2562.profile],
                          TAS2562_SMARTPA_ENABLE |-> "DISABLE"]]_vars

C6_Witness ==
    /\ WasSpeakerCall(TRUE)
    /\ last.fault = "pcm_start"
    /\ ~last.mixer_err
    /\ tas2562.pcm = NULL
    /\ tas2562.profile = PROFILE_RING
    /\ adev.mixer[TAS2562_ALGO_PROFILE] = "RING"
    /\ adev.mixer[TAS2562_SMARTPA_ENABLE] = "DISABLE"
    /\ Routing(adev) = <<0, 0, <<PlaybackUsecase>> >>

\* The rollback of an enable has run: the trace of the call ends with it.
RollbackRan(cs) ==
    /\ Len(cs) >= 4
    /\ SubSeq(cs, Len(cs) - 3, Len(cs)) =
          <<Call("mixer_set_enum", TAS2562_SMARTPA_ENABLE, "DISABLE"),
            Call("disable_audio_route", USECASE_AUDIO_SPKR_CALIB_TX, ""),
            Call("disable_snd_device", SND_DEVICE_IN_CAPTURE_VI_FEEDBACK, ""),
            Call("list_remove", USECASE_AUDIO_SPKR_CALIB_TX, "")>>

\* C7 as stated: a speaker-class enable with no session open returns -ENODEV
\* (DeviceUnavailable) exactly when there is no PCM device id and -EIO (IOError)
\* exactly when the stream fails to open, is not ready or fails to start; in
\* these cases the rollback has run and no session is stored.
C7_ResultNamesFailingStep ==
    [][(SpeakerEnableCall /\ tas2562.pcm = NULL) =>
          /\ last'.rc = -ENODEV <=> last'.fault = "pcm_id"
          /\ last'.rc = -EIO <=>
                last'.fault \in {"pcm_open", "pcm_not_ready", "pcm_start"}
          /\ last'.fault \in {"pcm_id", "pcm_open", "pcm_not_ready", "pcm_start"} =>
                (RollbackRan(calls') /\ tas2562'.pcm = NULL)]_vars

\* C7, amended: such an enable returns -ENODEV when there is no PCM device id
\* and -EIO when the stream fails to open or is not ready; when the stream fails
\* to start it returns the negative status pcm_start returned, whatever it is.
\* In these cases the rollback has run and no session is stored.
C7_ResultOfFailingStep ==
    [][(SpeakerEnableCall /\ tas2562.pcm = NULL) =>
          /\ last'.fault = "pcm_id" => last'.rc = -ENODEV
          /\ last'.fault \in {"pcm_open", "pcm_not_ready"} => last'.rc = -EIO
          /\ last'.fault = "pcm_start" =>
                (last'.rc = last'.pcm_start /\ last'.rc < 0)
          /\ last'.fault = "none" => last'.rc = 0
          /\ last'.fault \in {"pcm_id", "pcm_open", "pcm_not_ready", "pcm_start"} =>
                (RollbackRan(calls') /\ tas2562'.pcm = NULL)]_vars

C7_Witness ==
    /\ WasSpeakerCall(TRUE)
    /\ last.fault = "pcm_start"
    /\ last.pcm_start = -EPERM
    /\ last.rc = -EPERM
    /\ RollbackRan(calls)
    /\ tas2562.pcm = NULL

(***************************************************************************)
(* Properties of set_mode                                                  *)
(***************************************************************************)
\* C8: set_mode with a device handle returns 0 and stores MUSIC for NORMAL,
\* RING for RINGTONE, VOICE for IN_CALL and for IN_COMMUNICATION; for any other
\* mode the stored profile is the one stored before the call.
C8_ModeToProfile ==
    [][(last'.op = "set_mode" /\ last'.device = "DEV") =>
          /\ last'.rc = 0
          /\ last'.mode = "AUDIO_MODE_NORMAL" => tas2562'.profile = PROFILE_MUSIC
          /\ last'.mode = "AUDIO_MODE_RINGTONE" => tas2562'.profile = PROFILE_RING
          /\ last'.mode = "AUDIO_MODE_IN_CALL" => tas2562'.profile = PROFILE_VOICE
          /\ last'.mode = "AUDIO_MODE_IN_COMMUNICATION" =>
                tas2562'.profile = PROFILE_VOICE
          /\ last'.mode \in {"AUDIO_MODE_INVALID", "AUDIO_MODE_CALL_SCREEN"} =>
                tas2562'.profile = tas2562.profile]_vars

C8_Witness ==
    /\ last.op = "set_mode" /\ last.device = "DEV"
    /\ last.mode = "AUDIO_MODE_IN_COMMUNICATION"
    /\ last.rc = 0
    /\ tas2562.profile = PROFILE_VOICE
    /\ tas2562.pcm # NULL

(***************************************************************************)
(* Properties of the variant resolver                                      *)
(***************************************************************************)
\* The rows of the table that satisfy the condition search_variant tests.
MatchingRows ==
    {i \in 1..Len(variants) : variant_matches(variants[i], hwc_prop, hwname_prop)}

\* C9: search_variant applies at most one row of the table, the first one in
\* table order that satisfies its match condition; brand, device, model and
\* fingerprint are then those of that row, whatever later rows say; if no row
\* matches, no property is set.
C9_FirstMatchOnly ==
    vpc = "done" =>
        /\ Len(applied) <= 1
        /\ MatchingRows = {} => (applied = <<>> /\ props = StockProps)
        /\ MatchingRows # {} =>
              /\ Len(applied) = 1
              /\ applied[1] \in MatchingRows
              /\ \A j \in MatchingRows : applied[1] <= j
              /\ props["brand"] = variants[applied[1]].brand
              /\ props["device"] = variants[applied[1]].device
              /\ props["model"] = variants[applied[1]].model
              /\ props["fingerprint"] = variants[applied[1]].build_fingerprint

C9_Witness ==
    /\ vpc = "done"
    /\ Len(variants) = 2
    /\ MatchingRows = {1, 2}
    /\ variants[1].hwc_value = "India" /\ variants[2].hwc_value = ""
    /\ variants[1].brand = "POCO" /\ variants[2].brand = "Redmi"
    /\ applied = <<1>>
    /\ props["brand"] = "POCO"
    /\ props["model"] = "POCO M2 Pro"

\* The match condition as the table's fields define it: hardware-code empty or
\* equal to ro.boot.hwc, and hardware-name equal to ro.boot.hwname.
MatchesByHwName(variant) ==
    /\ (variant.hwc_value = "" \/ variant.hwc_value = hwc_prop)
    /\ variant.hwname_value = hwname_prop

\* C10: a row is selected if and only if its hardware-code is empty or equals
\* ro.boot.hwc and its hardware-name field equals ro.boot.hwname: the row
\* applied is the first such row, and none is applied if there is no such row.
C10_MatchOnHwNameField ==
    vpc = "done" =>
        LET rows == {i \in 1..Len(variants) : MatchesByHwName(variants[i])}
        IN IF rows = {} THEN applied = <<>>
           ELSE /\ Len(applied) = 1
                /\ applied[1] \in rows
                /\ \A j \in rows : applied[1] <= j

(***************************************************************************)
(* Properties of open                                                      *)
(***************************************************************************)
\* The most recent call was an open that returned a device handle.
FreshHandle == last.op = "open" /\ last.rc = 0

\* The value a call trace writes to the algorithm profile control, "" if none.
IsAlgoWrite(c) == c.fn = "mixer_set_enum" /\ c.a = TAS2562_ALGO_PROFILE
AlgoWritten(cs) ==
    LET w == SelectSeq(cs, IsAlgoWrite)
    IN IF w = <<>> THEN "" ELSE w[Len(w)].v

\* C11 as stated: open returns -ENODEV (NotFound) and no handle when the name
\* is not the amplifier interface name, and in every other case returns a
\* handle with profile MUSIC and no session.
C11_OpenFailsOnlyOnName ==
    [][last'.op = "open" =>
          /\ last'.name # AMPLIFIER_HARDWARE_INTERFACE =>
                (last'.rc = -ENODEV /\ dev' = "unopened")
          /\ last'.name = AMPLIFIER_HARDWARE_INTERFACE =>
                /\ last'.rc = 0
                /\ dev' = "open"
                /\ tas2562'.profile = PROFILE_MUSIC
                /\ tas2562'.pcm = NULL]_vars

\* C11, amended: open returns -ENODEV (NotFound) and no handle when the name is
\* not the amplifier interface name; with that name it returns -ENOMEM
\* (AllocationFailure) and no handle when the device record cannot be
\* allocated, and otherwise 0 and a handle with profile MUSIC and no session.
\* On a handle just returned, a speaker-class disable returns -EINVAL
\* (InvalidState) and a speaker-class enable that gets its usecase record
\* selects the algorithm profile "MUSIC".
C11_OpenOutcome ==
    [][/\ last'.op = "open" =>
            /\ last'.name # AMPLIFIER_HARDWARE_INTERFACE =>
                  (last'.rc = -ENODEV /\ dev' = "unopened" /\ tas2562' = tas2562)
            /\ (last'.name = AMPLIFIER_HARDWARE_INTERFACE /\ last'.fault = "calloc") =>
                  (last'.rc = -ENOMEM /\ dev' = "unopened" /\ tas2562' = tas2562)
            /\ (last'.name = AMPLIFIER_HARDWARE_INTERFACE /\ last'.fault # "calloc") =>
                  /\ last'.rc = 0
                  /\ dev' = "open"
                  /\ tas2562'.profile = PROFILE_MUSIC
                  /\ tas2562'.pcm = NULL
       /\ (FreshHandle /\ SpeakerDisableCall) =>
            (last'.rc = -EINVAL /\ calls' = <<>>)
       /\ (FreshHandle /\ SpeakerEnableCall /\ last'.fault # "calloc") =>
            AlgoWritten(calls') = "MUSIC"]_vars

C11_Witness ==
    /\ FreshHandle
    /\ last.name = AMPLIFIER_HARDWARE_INTERFACE
    /\ dev = "open"
    /\ tas2562.profile = PROFILE_MUSIC
    /\ tas2562.pcm = NULL
    /\ pcms = {}

(***************************************************************************)
(* Order of the enable path and the profile it selects                     *)
(***************************************************************************)
\* The calls of an enable that succeeds, in order, for a profile name.
EnableSteps(profile) ==
    <<Call("list_add_head", USECASE_AUDIO_SPKR_CALIB_TX, ""),
      Call("enable_snd_device", SND_DEVICE_IN_CAPTURE_VI_FEEDBACK, ""),
      Call("enable_audio_route", USECASE_AUDIO_SPKR_CALIB_TX, ""),
      Call("mixer_set_value", TAS2562_SET_SPKID_LEFT, "0"),
      Call("mixer_set_enum", TAS2562_ALGO_PROFILE, profile),
      Call("mixer_set_enum", TAS2562_SMARTPA_ENABLE, "ENABLE"),
      Call("platform_get_pcm_device_id", USECASE_AUDIO_SPKR_CALIB_TX, ""),
      Call("pcm_open", "", ""),
      Call("pcm_start", "", "")>>

\* C12: a successful enable makes its calls in this order: usecase record
\* inserted at the head of the list, routing device enabled, audio route
\* applied, speaker-id "left" set, algorithm profile selected, smart-PA-enable
\* set to "ENABLE", PCM device id resolved, stream opened, stream started; the
\* session handle is stored only by an enable whose last call is a pcm_start
\* that succeeded, and an enable that fails at any step stores none.
C12_EnableOrder ==
    [][(SpeakerEnableCall /\ tas2562.pcm = NULL) =>
          /\ last'.rc = 0 =>
                /\ \E n \in DOMAIN tas2562_profile_names :
                      calls' = EnableSteps(tas2562_profile_names[n])
                /\ adev'.usecase_list[1] = FeedbackUsecase
                /\ tas2562'.pcm \in pcms' \ pcms
          /\ tas2562'.pcm # NULL =>
                /\ last'.rc = 0
                /\ last'.fault = "none"
                /\ calls'[Len(calls')] = Call("pcm_start", "", "")
          /\ last'.fault # "none" => tas2562'.pcm = NULL]_vars

C12_Witness ==
    /\ WasSpeakerCall(TRUE)
    /\ last.rc = 0
    /\ calls = EnableSteps("MUSIC")
    /\ tas2562.pcm # NULL
    /\ tas2562.pcm \in pcms
    /\ adev.usecase_list = <<FeedbackUsecase, PlaybackUsecase>>

\* The modes tas2562_set_mode maps to a profile.
MappedModes ==
    {"AUDIO_MODE_NORMAL", "AUDIO_MODE_RINGTONE", "AUDIO_MODE_IN_CALL",
     "AUDIO_MODE_IN_COMMUNICATION"}

\* C13: the algorithm profile an enable writes is the name of the profile
\* stored when the call is made.  The stored profile is set only by open (to
\* MUSIC) and by a set_mode with a mapped mode (to the image of that mode), so
\* it is the image of the most recent such set_mode, MUSIC if there was none.
\* set_mode makes no mixer, routing or stream call and leaves the session
\* handle, the usecase list, the routing and mixer state and the streams as
\* they are, with a session open or not.
C13_ProfileOfEnable ==
    [][/\ (SpeakerEnableCall /\ tas2562.pcm = NULL /\ last'.fault # "calloc") =>
            AlgoWritten(calls') = tas2562_profile_names[tas2562.profile]
       /\ tas2562'.profile # tas2562.profile =>
            \/ last'.op = "open" /\ last'.rc = 0 /\ tas2562'.profile = PROFILE_MUSIC
            \/ /\ last'.op = "set_mode" /\ last'.device = "DEV"
               /\ last'.mode \in MappedModes
       /\ (last'.op = "set_mode" /\ last'.device = "DEV"
              /\ last'.mode \in MappedModes) =>
            tas2562'.profile = ProfileForMode(PROFILE_NONE, last'.mode)
       /\ last'.op = "set_mode" =>
            /\ calls' = <<>>
            /\ tas2562'.pcm = tas2562.pcm
            /\ adev' = adev
            /\ pcms' = pcms]_vars

C13_Witness ==
    /\ WasSpeakerCall(TRUE)
    /\ last.rc = 0
    /\ ~last.mixer_err
    /\ tas2562.profile = PROFILE_RING
    /\ AlgoWritten(calls) = "RING"
    /\ adev.mixer[TAS2562_ALGO_PROFILE] = "RING"
    /\ tas2562.pcm # NULL

(***************************************************************************)
(* Disable without a usecase record                                        *)
(***************************************************************************)
\* C14: a speaker-class disable with a session open and no feedback-capture
\* record in the usecase list returns 0: the stream of the session is closed,
\* the session handle is cleared, "DISABLE" is written to smart-PA-enable, the
\* routing device is disabled, and the list is left as it is, with no audio
\* route reverted and no record removed.
C14_DisableWithoutRecord ==
    [][(SpeakerDisableCall /\ tas2562.pcm # NULL
          /\ FeedbackRecords(adev.usecase_list) = 0) =>
          /\ last'.rc = 0
          /\ calls'[1] = Call("pcm_close", "", "")
          /\ pcms' = pcms \ {tas2562.pcm}
          /\ tas2562'.pcm = NULL
          /\ LastSmartPaWrite(calls') = "DISABLE"
          /\ ~last'.mixer_err => adev'.mixer[TAS2562_SMARTPA_ENABLE] = "DISABLE"
          /\ HasCall(calls', "disable_snd_device")
          /\ adev'.snd_device_ref = adev.snd_device_ref - 1
          /\ adev'.usecase_list = adev.usecase_list
          /\ ~HasCall(calls', "list_remove")
          /\ ~HasCall(calls', "disable_audio_route")
          /\ adev'.audio_route_ref = adev.audio_route_ref]_vars

C14_Witness ==
    /\ WasSpeakerCall(FALSE)
    /\ last.rc = 0
    /\ calls = <<Call("pcm_close", "", ""),
                 Call("mixer_set_enum", TAS2562_SMARTPA_ENABLE, "DISABLE"),
                 Call("disable_snd_device", SND_DEVICE_IN_CAPTURE_VI_FEEDBACK, ""),
                 Call("get_usecase_from_list", USECASE_AUDIO_SPKR_CALIB_TX, "")>>
    /\ tas2562.pcm = NULL
    /\ pcms = {}
    /\ adev.usecase_list = <<PlaybackUsecase>>
    /\ adev.snd_device_ref = 0
    /\ adev.audio_route_ref = 1

(***************************************************************************)
(* Invariants of the amplifier                                             *)
(***************************************************************************)
\* C15: once the device is open, after any set_mode (mapped mode or not) and
\* any set_feedback the stored profile is MUSIC, RING or VOICE, an index of
\* tas2562_profile_names; set_feedback leaves the stored profile as it is.
C15_ProfileInTable ==
    [][/\ dev' # "unopened" =>
            /\ tas2562'.profile \in {PROFILE_MUSIC, PROFILE_RING, PROFILE_VOICE}
            /\ tas2562'.profile \in DOMAIN tas2562_profile_names
       /\ last'.op = "set_feedback" => tas2562'.profile = tas2562.profile]_vars

C15_Witness ==
    /\ last.op = "set_mode" /\ last.device = "DEV"
    /\ last.mode = "AUDIO_MODE_CALL_SCREEN"
    /\ last.rc = 0
    /\ tas2562.profile = PROFILE_RING
    /\ tas2562_profile_names[tas2562.profile] = "RING"

\* 1 if a session is open, 0 otherwise.
SessionCount == IF tas2562.pcm # NULL THEN 1 ELSE 0

\* C16: between calls, with the usecase list touched by the amplifier only, the
\* list holds one feedback-capture record if a session is open and none
\* otherwise; the routing device is enabled once more than disabled, and the
\* audio route applied once more than reverted, if a session is open, and
\* equally often otherwise.
C16_RoutingFollowsSession ==
    /\ FeedbackRecords(adev.usecase_list) = SessionCount
    /\ adev.snd_device_ref = SessionCount
    /\ adev.audio_route_ref = SessionCount

C16_Witness ==
    /\ WasSpeakerCall(TRUE)
    /\ last.rc = 0
    /\ last.mixer_err
    /\ tas2562.pcm # NULL
    /\ FeedbackRecords(adev.usecase_list) = 1
    /\ adev.snd_device_ref = 1
    /\ adev.audio_route_ref = 1

\* C17: when every mixer write succeeds and smart-PA-enable starts at
\* "DISABLE", then between calls, whatever failures of the PCM id lookup, the
\* stream open and the stream start are injected, smart-PA-enable is "ENABLE"
\* if and only if a session is open.
C17_SmartPaFollowsSession ==
    adev.mixer[TAS2562_SMARTPA_ENABLE] = "ENABLE" <=> tas2562.pcm # NULL

C17_Witness ==
    /\ WasSpeakerCall(TRUE)
    /\ last.fault = "pcm_not_ready"
    /\ HasCall(calls, "pcm_open")
    /\ LastSmartPaWrite(calls) = "DISABLE"
    /\ adev.mixer[TAS2562_SMARTPA_ENABLE] = "DISABLE"
    /\ adev.mixer[TAS2562_SET_SPKID_LEFT] = 0
    /\ tas2562.pcm = NULL

\* C18: no capture stream is leaked by set_feedback: between calls the streams
\* that pcm_open returned and pcm_close has not closed are the stream of the
\* session if one is open, and none otherwise.
C18_NoStreamLeak ==
    pcms = IF tas2562.pcm # NULL THEN {tas2562.pcm} ELSE {}

(***************************************************************************)
(* Mixer failures                                                          *)
(***************************************************************************)
\* C19: a mixer control that is not found or refuses its value does not change
\* what set_feedback does.  An enable in which a mixer helper failed still
\* resolves the PCM id and, if id, open and start succeed, opens and starts the
\* stream, stores the session and returns 0; its result is decided by the
\* PCM steps alone.  A disable in which the mixer helper failed still clears
\* the session, closes its stream, disables the routing device, removes the
\* usecase record and returns 0.
C19_MixerFailureIgnored ==
    [][/\ (SpeakerEnableCall /\ tas2562.pcm = NULL /\ last'.mixer_err) =>
            /\ HasCall(calls', "platform_get_pcm_device_id")
            /\ last'.fault = "none" =>
                  /\ last'.rc = 0
                  /\ tas2562'.pcm \in pcms' \ pcms
                  /\ calls' = EnableSteps(tas2562_profile_names[tas2562.profile])
            /\ last'.fault = "pcm_id" => last'.rc = -ENODEV
            /\ last'.fault \in {"pcm_open", "pcm_not_ready"} => last'.rc = -EIO
            /\ last'.fault = "pcm_start" => last'.rc = last'.pcm_start
            /\ last'.rc = 0 <=> last'.fault = "none"
       /\ (SpeakerDisableCall /\ tas2562.pcm # NULL /\ last'.mixer_err) =>
            /\ last'.rc = 0
            /\ tas2562'.pcm = NULL
            /\ pcms' = pcms \ {tas2562.pcm}
            /\ HasCall(calls', "disable_snd_device")
            /\ adev'.snd_device_ref = adev.snd_device_ref - 1
            /\ HasCall(calls', "list_remove")
            /\ FeedbackRecords(adev'.usecase_list) = 0]_vars

C19_Witness ==
    /\ WasSpeakerCall(TRUE)
    /\ last.rc = 0
    /\ last.mixer_err
    /\ calls = EnableSteps("MUSIC")
    /\ adev.mixer[TAS2562_SMARTPA_ENABLE] = "DISABLE"
    /\ adev.mixer[TAS2562_SET_SPKID_LEFT] = 1
    /\ adev.mixer[TAS2562_ALGO_PROFILE] = "VOICE"
    /\ tas2562.pcm # NULL

(***************************************************************************)
(* Properties of close                                                     *)
(***************************************************************************)
\* C20: after close on a device handle nothing owned through the handle is
\* still active: no stream it opened is still open, no feedback-capture record
\* is in the usecase list and smart-PA-enable is not "ENABLE"; close on a null
\* handle returns 0 and changes nothing.
C20_CloseLeavesNothingActive ==
    [][last'.op = "close" =>
          /\ last'.rc = 0
          /\ last'.device # "NULL" =>
                /\ pcms' = {}
                /\ FeedbackRecords(adev'.usecase_list) = 0
                /\ adev'.mixer[TAS2562_SMARTPA_ENABLE] # "ENABLE"
          /\ last'.device = "NULL" =>
                /\ dev' = dev
                /\ tas2562' = tas2562
                /\ adev' = adev
                /\ pcms' = pcms]_vars

====
